---- MODULE Spec2Model ----
(***************************************************************************)
(* A model of the boolean search engine (search_engine.py), of the export  *)
(* tool's loader (export_index_json.py) and of the FastAPI service that    *)
(* serves it (main.py).                                                     *)
(*                                                                         *)
(* Strings are sequences of characters.  A character is a one-character     *)
(* string; a character that cannot be written in ASCII is written by its   *)
(* code point ("U+0007" is BEL, "U+FF1C" is the fullwidth '<').  Document   *)
(* ids are the program's 0-based integers; Python lists are sequences, so   *)
(* docs[docid] of the program is docs[docid + 1] here.                      *)
(***************************************************************************)
EXTENDS Integers, Sequences, FiniteSets, TLC

VARIABLES
    state,      \* main.py STATE: [docs, postings, n_docs]
    heap,       \* the list objects of the process: heap[r] is the list at reference r
    life,       \* where the lifespan coroutine stands
    loaded,     \* lifespan's locals after load_corpus/build_inverted_index
    corpus,     \* the lines of the corpus file (CORPUS_PATH)
    h,          \* the /search handlers: h[i] is the locals and position of handler i
    fin,        \* the argument of the function under test (the function specifications)
    fout        \* the results it has returned so far

vars == <<state, heap, life, loaded, corpus, h, fin, fout>>

(***************************************************************************)
(* Characters.                                                             *)
(***************************************************************************)
LowerLetters ==
    <<"a","b","c","d","e","f","g","h","i","j","k","l","m",
      "n","o","p","q","r","s","t","u","v","w","x","y","z">>

UpperLetters ==
    <<"A","B","C","D","E","F","G","H","I","J","K","L","M",
      "N","O","P","Q","R","S","T","U","V","W","X","Y","Z">>

Digits == {"0","1","2","3","4","5","6","7","8","9"}

\* str.lower() on one character of the model's alphabet.
LowerChar(ch) ==
    IF \E i \in 1..Len(UpperLetters) : UpperLetters[i] = ch
    THEN LowerLetters[CHOOSE i \in 1..Len(UpperLetters) : UpperLetters[i] = ch]
    ELSE ch

\* str.upper() on one character of the model's alphabet.
UpperChar(ch) ==
    IF \E i \in 1..Len(LowerLetters) : LowerLetters[i] = ch
    THEN UpperLetters[CHOOSE i \in 1..Len(LowerLetters) : LowerLetters[i] = ch]
    ELSE ch

str_lower(s) == [i \in 1..Len(s) |-> LowerChar(s[i])]

str_upper(s) == [i \in 1..Len(s) |-> UpperChar(s[i])]

\* The characters str.split() splits on (those of the model's alphabet).
Whitespace == {" ", "\t", "\n"}

\* unicodedata.category(ch)[0] == "C" (those of the model's alphabet).
IsControl(ch) == ch \in {"U+0007", "\t", "\n"}

\* unicodedata.normalize("NFKC", ch): the fullwidth '<', '>' and '&' fold to
\* their ASCII forms; every other character of the alphabet is its own NFKC.
NFKCChar(ch) ==
    CASE ch = "U+FF1C" -> "<"
      [] ch = "U+FF1E" -> ">"
      [] ch = "U+FF06" -> "&"
      [] OTHER -> ch

\* WORD_RE's class [a-z0-9] after lower(); the accented letters of the class
\* are not in the model's alphabet.
IsWordChar(ch) ==
    \/ \E i \in 1..Len(LowerLetters) : LowerLetters[i] = ch
    \/ ch \in Digits

\* First index j >= from with s[j] = ch, or 0.
RECURSIVE IndexFrom(_, _, _)
IndexFrom(s, ch, from) ==
    IF from > Len(s) THEN 0
    ELSE IF s[from] = ch THEN from
    ELSE IndexFrom(s, ch, from + 1)

(***************************************************************************)
(* html.unescape, as clean_text calls it.  Html5 holds every entry of      *)
(* html.entities.html5 whose name is written with the letters a, b, l, m,  *)
(* p, t: the only letters that follow '&' in the inputs of the model.  The *)
(* alphabet holds no '#', so the numeric alternatives of the pattern never *)
(* match.                                                                  *)
(***************************************************************************)
Html5Names ==
    { <<"a","m","p">>, <<"a","m","p",";">>, <<"l","t">>, <<"l","t",";">>,
      <<"a","p",";">>, <<"l","a","p",";">>, <<"l","a","t",";">>,
      <<"l","l",";">>, <<"m","a","l","t",";">>, <<"m","a","p",";">>,
      <<"m","p",";">>, <<"p","m",";">> }

Html5(name) ==
    CASE name \in {<<"a","m","p">>, <<"a","m","p",";">>} -> <<"&">>
      [] name \in {<<"l","t">>, <<"l","t",";">>} -> <<"<">>
      [] name = <<"a","p",";">> -> <<"U+2248">>
      [] name = <<"l","a","p",";">> -> <<"U+2A85">>
      [] name = <<"l","a","t",";">> -> <<"U+2AAB">>
      [] name = <<"l","l",";">> -> <<"U+226A">>
      [] name = <<"m","a","l","t",";">> -> <<"U+2720">>
      [] name = <<"m","a","p",";">> -> <<"U+21A6">>
      [] name = <<"m","p",";">> -> <<"U+2213">>
      [] name = <<"p","m",";">> -> <<"U+00B1">>

\* [^\t\n\f <&#;]
IsNameChar(ch) == ch \notin {"\t", "\n", "\f", " ", "<", "&", "#", ";"}

\* Length of the run matched by [^\t\n\f <&#;]{1,32} at s[from..].
RECURSIVE NameRun(_, _, _)
NameRun(s, from, n) ==
    IF from + n <= Len(s) /\ n < 32 /\ IsNameChar(s[from + n])
    THEN NameRun(s, from, n + 1)
    ELSE n

\* _replace_charref for a named reference s (the text after '&').
RECURSIVE LongestPrefix(_, _)
LongestPrefix(s, x) ==
    IF x <= 1 THEN <<"&">> \o s
    ELSE IF SubSeq(s, 1, x) \in Html5Names
         THEN Html5(SubSeq(s, 1, x)) \o SubSeq(s, x + 1, Len(s))
         ELSE LongestPrefix(s, x - 1)

ReplaceCharref(s) ==
    IF s \in Html5Names THEN Html5(s) ELSE LongestPrefix(s, Len(s) - 1)

RECURSIVE UnescapeFrom(_, _)
UnescapeFrom(s, i) ==
    IF i > Len(s) THEN <<>>
    ELSE IF s[i] = "&" /\ NameRun(s, i + 1, 0) >= 1
    THEN LET n == NameRun(s, i + 1, 0)
             m == IF i + n + 1 <= Len(s) /\ s[i + n + 1] = ";" THEN n + 1 ELSE n
         IN  ReplaceCharref(SubSeq(s, i + 1, i + m)) \o UnescapeFrom(s, i + m + 1)
    ELSE <<s[i]>> \o UnescapeFrom(s, i + 1)

unescape(s) == UnescapeFrom(s, 1)

(***************************************************************************)
(* clean_text and tokenize.                                                *)
(***************************************************************************)
\* TAG_RE.sub(" ", s) with TAG_RE = <[^>]+> : leftmost matches, left to right.
RECURSIVE TagSubFrom(_, _)
TagSubFrom(s, i) ==
    IF i > Len(s) THEN <<>>
    ELSE LET j == IndexFrom(s, ">", i + 1)
         IN  IF s[i] = "<" /\ j >= i + 2
             THEN <<" ">> \o TagSubFrom(s, j + 1)
             ELSE <<s[i]>> \o TagSubFrom(s, i + 1)

\* tag_sub replacing the first match only (count=1).
RECURSIVE TagSubOnceFrom(_, _)
TagSubOnceFrom(s, i) ==
    IF i > Len(s) THEN <<>>
    ELSE LET j == IndexFrom(s, ">", i + 1)
         IN  IF s[i] = "<" /\ j >= i + 2
             THEN <<" ">> \o SubSeq(s, j + 1, Len(s))
             ELSE <<s[i]>> \o TagSubOnceFrom(s, i + 1)

tag_sub_first(s) == TagSubOnceFrom(s, 1)

tag_sub(s) == TagSubFrom(s, 1)

normalize_nfkc(s) == [i \in 1..Len(s) |-> NFKCChar(s[i])]

\* The join of clean_text: a control character other than "\n", "\t", " "
\* becomes a space.
blank_controls(s) ==
    [i \in 1..Len(s) |->
        IF ~IsControl(s[i]) \/ s[i] \in {"\n", "\t", " "} THEN s[i] ELSE " "]

clean_text(s) == str_lower(blank_controls(normalize_nfkc(tag_sub(unescape(s)))))

\* WORD_RE.findall: the maximal runs of word characters, left to right.
RECURSIVE FindWords(_, _, _)
FindWords(s, i, run) ==
    IF i > Len(s) THEN (IF run = <<>> THEN <<>> ELSE <<run>>)
    ELSE IF IsWordChar(s[i]) THEN FindWords(s, i + 1, Append(run, s[i]))
    ELSE (IF run = <<>> THEN <<>> ELSE <<run>>) \o FindWords(s, i + 1, <<>>)

tokenize(s) == FindWords(str_lower(s), 1, <<>>)

(***************************************************************************)
(* The set operations on posting lists (two pointers, 1-based here).       *)
(***************************************************************************)
RECURSIVE IntersectLoop(_, _, _, _, _)
IntersectLoop(a, b, i, j, out) ==
    IF i <= Len(a) /\ j <= Len(b)
    THEN IF a[i] = b[j] THEN IntersectLoop(a, b, i + 1, j + 1, Append(out, a[i]))
         ELSE IF a[i] < b[j] THEN IntersectLoop(a, b, i + 1, j, out)
         ELSE IntersectLoop(a, b, i, j + 1, out)
    ELSE out

intersect(a, b) == IntersectLoop(a, b, 1, 1, <<>>)

RECURSIVE UnionLoop(_, _, _, _, _)
UnionLoop(a, b, i, j, out) ==
    IF i <= Len(a) /\ j <= Len(b)
    THEN IF a[i] = b[j] THEN UnionLoop(a, b, i + 1, j + 1, Append(out, a[i]))
         ELSE IF a[i] < b[j] THEN UnionLoop(a, b, i + 1, j, Append(out, a[i]))
         ELSE UnionLoop(a, b, i, j + 1, Append(out, b[j]))
    ELSE out \o SubSeq(a, i, Len(a)) \o SubSeq(b, j, Len(b))

union(a, b) == UnionLoop(a, b, 1, 1, <<>>)

RECURSIVE DifferenceLoop(_, _, _, _, _)
DifferenceLoop(a, b, i, j, out) ==
    IF i <= Len(a)
    THEN IF j > Len(b) THEN out \o SubSeq(a, i, Len(a))
         ELSE IF a[i] = b[j] THEN DifferenceLoop(a, b, i + 1, j + 1, out)
         ELSE IF a[i] < b[j] THEN DifferenceLoop(a, b, i + 1, j, Append(out, a[i]))
         ELSE DifferenceLoop(a, b, i, j + 1, out)
    ELSE out

difference(a, b) == DifferenceLoop(a, b, 1, 1, <<>>)

\* for d in range(n_docs): j is the 0-based pointer into p.
RECURSIVE ComplementLoop(_, _, _, _, _)
ComplementLoop(p, n_docs, d, j, out) ==
    IF d >= n_docs THEN out
    ELSE IF j < Len(p) /\ p[j + 1] = d
         THEN ComplementLoop(p, n_docs, d + 1, j + 1, out)
         ELSE ComplementLoop(p, n_docs, d + 1, j, Append(out, d))

\* complement with range(1, n_docs) for range(n_docs).
complement_from_one(p, n_docs) == ComplementLoop(p, n_docs, 1, 0, <<>>)

complement(p, n_docs) == ComplementLoop(p, n_docs, 0, 0, <<>>)

(***************************************************************************)
(* query_lex.  A token is a string: an operator token is upper case, a     *)
(* term token is what tokenize returns (lower case).                       *)
(***************************************************************************)
AND == <<"A","N","D">>
OR == <<"O","R">>
NOT == <<"N","O","T">>
LPAR == <<"(">>
RPAR == <<")">>

OPS == {AND, OR, NOT}

PREC(op) == CASE op = NOT -> 3 [] op = AND -> 2 [] op = OR -> 1

RIGHT_ASSOC == {NOT}

\* q.replace("(", " ( ").replace(")", " ) ")
RECURSIVE ReplaceParensFrom(_, _)
ReplaceParensFrom(q, i) ==
    IF i > Len(q) THEN <<>>
    ELSE (IF q[i] \in {"(", ")"} THEN <<" ", q[i], " ">> ELSE <<q[i]>>)
         \o ReplaceParensFrom(q, i + 1)

replace_parens(q) == ReplaceParensFrom(q, 1)

\* str.split(): the maximal runs of non-whitespace characters.
RECURSIVE SplitFrom(_, _, _)
SplitFrom(s, i, word) ==
    IF i > Len(s) THEN (IF word = <<>> THEN <<>> ELSE <<word>>)
    ELSE IF s[i] \notin Whitespace THEN SplitFrom(s, i + 1, Append(word, s[i]))
    ELSE (IF word = <<>> THEN <<>> ELSE <<word>>) \o SplitFrom(s, i + 1, <<>>)

split(s) == SplitFrom(s, 1, <<>>)

\* IsOperatorWord comparing tok, not its upper case, with OPS.
IsOperatorWord_exact(tok) == tok \in OPS \/ tok \in {LPAR, RPAR}

\* The test of query_lex: up in OPS or tok in ("(", ")").
IsOperatorWord(tok) == str_upper(tok) \in OPS \/ tok \in {LPAR, RPAR}

\* One iteration of query_lex's loop: what the raw word tok adds to out.
LexWord(tok) ==
    IF IsOperatorWord(tok) THEN <<str_upper(tok)>> ELSE tokenize(clean_text(tok))

RECURSIVE LexWords(_, _)
LexWords(raw, i) ==
    IF i > Len(raw) THEN <<>> ELSE LexWord(raw[i]) \o LexWords(raw, i + 1)

query_lex(q) == LexWords(split(replace_parens(q)), 1)

(***************************************************************************)
(* infix_to_postfix.  The operator stack's top is its last element.  The   *)
(* result is [err, out]: err is the ValueError's message, "" for none.     *)
(***************************************************************************)
UNBALANCED == "Parentesis desbalanceados"

Top(stack) == stack[Len(stack)]

Pop(stack) == SubSeq(stack, 1, Len(stack) - 1)

\* ShouldPop with NOT taken for left-associative like AND and OR.
ShouldPop_no_assoc(top, tok) == PREC(top) >= PREC(tok)

\* The condition under which the operator on the stack is popped before tok
\* is pushed.
ShouldPop(top, tok) ==
    \/ top \in RIGHT_ASSOC /\ PREC(top) > PREC(tok)
    \/ top \notin RIGHT_ASSOC /\ PREC(top) >= PREC(tok)

\* tok == ")": pop to the output until "(", which is dropped.
RECURSIVE CloseParen(_, _)
CloseParen(out, stack) ==
    IF stack # <<>> /\ Top(stack) # LPAR
    THEN CloseParen(Append(out, Top(stack)), Pop(stack))
    ELSE IF stack = <<>> THEN [err |-> UNBALANCED, out |-> out, stack |-> stack]
    ELSE [err |-> "", out |-> out, stack |-> Pop(stack)]

\* tok in OPS: pop while the top is an operator that ShouldPop, then push.
RECURSIVE PushOperator(_, _, _)
PushOperator(out, stack, tok) ==
    IF stack # <<>> /\ Top(stack) \in OPS /\ ShouldPop(Top(stack), tok)
    THEN PushOperator(Append(out, Top(stack)), Pop(stack), tok)
    ELSE [err |-> "", out |-> out, stack |-> Append(stack, tok)]

\* Drain without its check for a parenthesis left on the stack.
RECURSIVE Drain_unchecked(_, _)
Drain_unchecked(out, stack) ==
    IF stack = <<>> THEN [err |-> "", out |-> out]
    ELSE Drain_unchecked(Append(out, Top(stack)), Pop(stack))

\* The final loop: pop everything; a parenthesis left on the stack raises.
RECURSIVE Drain(_, _)
Drain(out, stack) ==
    IF stack = <<>> THEN [err |-> "", out |-> out]
    ELSE IF Top(stack) \in {LPAR, RPAR} THEN [err |-> UNBALANCED, out |-> out]
    ELSE Drain(Append(out, Top(stack)), Pop(stack))

RECURSIVE ShuntingLoop(_, _, _, _)
ShuntingLoop(tokens, i, out, stack) ==
    IF i > Len(tokens) THEN Drain(out, stack)
    ELSE LET tok == tokens[i]
             r == CASE tok = LPAR -> [err |-> "", out |-> out, stack |-> Append(stack, tok)]
                    [] tok = RPAR -> CloseParen(out, stack)
                    [] tok \in OPS -> PushOperator(out, stack, tok)
                    [] OTHER -> [err |-> "", out |-> Append(out, tok), stack |-> stack]
         IN  IF r.err # "" THEN [err |-> r.err, out |-> r.out]
             ELSE ShuntingLoop(tokens, i + 1, r.out, r.stack)

infix_to_postfix(tokens) == ShuntingLoop(tokens, 1, <<>>, <<>>)

(***************************************************************************)
(* load_corpus, load_docs and build_inverted_index.  A line of the corpus  *)
(* file is Line(docid, cat, txt), a line DOC_RE matches with the groups it *)
(* parses, or JUNK, a line it does not match.  A dict is a function on its *)
(* keys.                                                                   *)
(***************************************************************************)
JUNK == [match |-> FALSE, docid |-> 0, cat |-> "", txt |-> <<>>]

\* A line DOC_RE matches, with the groups it parses.
Line(docid, cat, txt) == [match |-> TRUE, docid |-> docid, cat |-> cat, txt |-> txt]

\* The loop over the file: the lines DOC_RE matches, in file order, each as
\* the tuple (docid, cat, txt).
RECURSIVE ParseLines(_, _)
ParseLines(lines, i) ==
    IF i > Len(lines) THEN <<>>
    ELSE (IF ~lines[i].match THEN <<>>
          ELSE <<[docid |-> lines[i].docid, cat |-> lines[i].cat, txt |-> lines[i].txt]>>)
         \o ParseLines(lines, i + 1)

\* list.sort(key=lambda x: x[0]): stable, ascending by docid.
RECURSIVE InsertByDocid(_, _)
InsertByDocid(sorted, d) ==
    IF sorted = <<>> THEN <<d>>
    ELSE IF Top(sorted).docid <= d.docid THEN Append(sorted, d)
    ELSE Append(InsertByDocid(Pop(sorted), d), Top(sorted))

RECURSIVE SortByDocid(_, _, _)
SortByDocid(docs, i, sorted) ==
    IF i > Len(docs) THEN sorted
    ELSE SortByDocid(docs, i + 1, InsertByDocid(sorted, docs[i]))

\* Remap leaving every document its parsed id.
Remap_keep_ids(raw_docs) == raw_docs

\* enumerate(raw_docs): new_id is the 0-based position.
Remap(raw_docs) ==
    [k \in 1..Len(raw_docs) |->
        [docid |-> k - 1, cat |-> raw_docs[k].cat, txt |-> raw_docs[k].txt]]

load_corpus(lines, remap_docids) ==
    LET raw_docs == SortByDocid(ParseLines(lines, 1), 1, <<>>)
        docs == IF remap_docids THEN Remap(raw_docs) ELSE raw_docs
    IN  [docs |-> docs, n_docs |-> Len(docs)]

\* export_index_json.py: the same loop and sort, and no remapping.
load_docs(lines) == SortByDocid(ParseLines(lines, 1), 1, <<>>)

Range(s) == {s[i] : i \in 1..Len(s)}

\* dict.get(key, [])
Get(dict, key) == IF key \in DOMAIN dict THEN dict[key] ELSE <<>>

\* list.sort() on a list of ints.
RECURSIVE InsertInt(_, _)
InsertInt(sorted, x) ==
    IF sorted = <<>> THEN <<x>>
    ELSE IF Top(sorted) <= x THEN Append(sorted, x)
    ELSE Append(InsertInt(Pop(sorted), x), Top(sorted))

RECURSIVE SortInts(_, _, _)
SortInts(xs, i, sorted) ==
    IF i > Len(xs) THEN sorted ELSE SortInts(xs, i + 1, InsertInt(sorted, xs[i]))

\* One document of build_inverted_index's first loop: its id is appended once
\* to the list of every term of set(toks).
IndexDoc(postings, doc) ==
    LET terms == Range(tokenize(clean_text(doc.txt)))
    IN  [t \in DOMAIN postings \cup terms |->
            IF t \in terms THEN Append(Get(postings, t), doc.docid) ELSE postings[t]]

RECURSIVE IndexDocs(_, _, _)
IndexDocs(docs, i, postings) ==
    IF i > Len(docs) THEN postings
    ELSE IndexDocs(docs, i + 1, IndexDoc(postings, docs[i]))

EmptyDict == [t \in {} |-> <<>>]

build_inverted_index(docs) ==
    LET postings == IndexDocs(docs, 1, EmptyDict)
    IN  [t \in DOMAIN postings |-> SortInts(postings[t], 1, <<>>)]

(***************************************************************************)
(* List objects.  eval_postfix pushes the index's own lists (no copy), so  *)
(* lists are objects: heap[r] is the list at reference r, the index maps a *)
(* term to a reference, and the evaluator's stack holds references.        *)
(***************************************************************************)
\* Each value of dict becomes an object of hp; the dict maps to references.
RECURSIVE StoreLists(_, _, _)
StoreLists(hp, dict, refs) ==
    IF DOMAIN refs = DOMAIN dict THEN [heap |-> hp, postings |-> refs]
    ELSE LET t == CHOOSE t \in DOMAIN dict \ DOMAIN refs : TRUE
         IN  StoreLists(Append(hp, dict[t]), dict, refs @@ (t :> Len(hp) + 1))

\* The values of an index of references.
Deref(hp, postings) == [t \in DOMAIN postings |-> hp[postings[t]]]

\* A call returns a new list `out`; its arguments are read, not written.
intersect_call(hp, a, b) ==
    [heap |-> Append(hp, intersect(hp[a], hp[b])), ref |-> Len(hp) + 1]

\* union_call extending its first argument in place and returning it.
union_in_place(hp, a, b) ==
    [heap |-> [hp EXCEPT ![a] = union(hp[a], hp[b])], ref |-> a]

union_call(hp, a, b) ==
    [heap |-> Append(hp, union(hp[a], hp[b])), ref |-> Len(hp) + 1]

complement_call(hp, a, n_docs) ==
    [heap |-> Append(hp, complement(hp[a], n_docs)), ref |-> Len(hp) + 1]

\* postings.get(tok, []): the index's own list, or a new empty list.
get_call(hp, postings, tok) ==
    IF tok \in DOMAIN postings THEN [heap |-> hp, ref |-> postings[tok]]
    ELSE [heap |-> Append(hp, <<>>), ref |-> Len(hp) + 1]

(***************************************************************************)
(* eval_postfix: one iteration of its loop, its end, and the whole.        *)
(***************************************************************************)
NOT_NO_OPERAND == "NOT sin operando"
AND_NO_OPERANDS == "AND sin operandos suficientes"
OR_NO_OPERANDS == "OR sin operandos suficientes"
INVALID_QUERY == "Consulta invalida"

EvalTok(hp, stack, tok, postings, n_docs) ==
    CASE tok = NOT ->
            IF stack = <<>> THEN [err |-> NOT_NO_OPERAND, heap |-> hp, stack |-> stack]
            ELSE LET r == complement_call(hp, Top(stack), n_docs)
                 IN  [err |-> "", heap |-> r.heap, stack |-> Append(Pop(stack), r.ref)]
      [] tok = AND ->
            IF Len(stack) < 2 THEN [err |-> AND_NO_OPERANDS, heap |-> hp, stack |-> stack]
            ELSE LET b == Top(stack)
                     a == Top(Pop(stack))
                     r == intersect_call(hp, a, b)
                 IN  [err |-> "", heap |-> r.heap, stack |-> Append(Pop(Pop(stack)), r.ref)]
      [] tok = OR ->
            IF Len(stack) < 2 THEN [err |-> OR_NO_OPERANDS, heap |-> hp, stack |-> stack]
            ELSE LET b == Top(stack)
                     a == Top(Pop(stack))
                     r == union_call(hp, a, b)
                 IN  [err |-> "", heap |-> r.heap, stack |-> Append(Pop(Pop(stack)), r.ref)]
      [] OTHER ->
            LET r == get_call(hp, postings, tok)
            IN  [err |-> "", heap |-> r.heap, stack |-> Append(stack, r.ref)]

\* After the loop: exactly one list must remain; it is returned (stack[0]).
EvalEnd(hp, stack) ==
    IF Len(stack) # 1 THEN [err |-> INVALID_QUERY, heap |-> hp, ref |-> 0]
    ELSE [err |-> "", heap |-> hp, ref |-> stack[1]]

RECURSIVE EvalLoop(_, _, _, _, _, _)
EvalLoop(hp, stack, postfix, k, postings, n_docs) ==
    IF k > Len(postfix) THEN EvalEnd(hp, stack)
    ELSE LET r == EvalTok(hp, stack, postfix[k], postings, n_docs)
         IN  IF r.err # "" THEN [err |-> r.err, heap |-> r.heap, ref |-> 0]
             ELSE EvalLoop(r.heap, r.stack, postfix, k + 1, postings, n_docs)

eval_postfix(hp, postfix, postings, n_docs) ==
    EvalLoop(hp, <<>>, postfix, 1, postings, n_docs)

(***************************************************************************)
(* The service (main.py).  STATE starts as {"docs": None, "postings":      *)
(* None, "n_docs": 0}; None is the record NoneVal, a value v is Some(v).   *)
(***************************************************************************)
NoneVal == [none |-> TRUE, val |-> <<>>]

Some(v) == [none |-> FALSE, val |-> v]

STATE0 == [docs |-> NoneVal, postings |-> NoneVal, n_docs |-> 0]

\* top: int = Query(10, ...)
DefaultTop == 10

\* snippet = txt if len(txt) <= 180 else (txt[:177] + "...")
SnippetMax == 180

SnippetCut == 177

Snippet(txt) ==
    IF Len(txt) <= SnippetMax THEN txt ELSE SubSeq(txt, 1, SnippetCut) \o <<".", ".", ".">>

\* lifespan, up to its first write of STATE: the corpus is loaded with
\* remap_docids=True and indexed; the index's lists become objects.
Startup(hp, lines) ==
    LET c == load_corpus(lines, TRUE)
        st == StoreLists(hp, build_inverted_index(c.docs), EmptyDict)
    IN  [heap |-> st.heap, docs |-> c.docs, postings |-> st.postings, n_docs |-> c.n_docs]

\* STATE once lifespan has reached its yield.
Serving(s) == [docs |-> Some(s.docs), postings |-> Some(s.postings), n_docs |-> s.n_docs]

NoLoad == [heap |-> <<>>, docs |-> <<>>, postings |-> EmptyDict, n_docs |-> 0]

Handlers == {1, 2}

NoResp == [status |-> 0, error |-> "", total |-> 0, results |-> <<>>]

\* A handler that has been called with the query q and has run no statement.
Called(q) ==
    [pc |-> "read_docs", q |-> q, docs |-> NoneVal, postings |-> NoneVal, n_docs |-> 0,
     tokens |-> <<>>, postfix |-> <<>>, stack |-> <<>>, k |-> 1, hits |-> 0,
     resp |-> NoResp]

Idle == [Called(<<>>) EXCEPT !.pc = "idle"]

Error(status, msg) == [status |-> status, error |-> msg, total |-> 0, results |-> <<>>]

(* lifespan *)
Load ==
    /\ life = "load"
    /\ LET s == Startup(heap, corpus)
       IN  /\ heap' = s.heap
           /\ loaded' = [s EXCEPT !.heap = <<>>]
    /\ life' = "write_docs"
    /\ UNCHANGED <<state, corpus, h, fin, fout>>

WriteDocs ==
    /\ life = "write_docs"
    /\ state' = [state EXCEPT !.docs = Some(loaded.docs)]
    /\ life' = "write_postings"
    /\ UNCHANGED <<heap, loaded, corpus, h, fin, fout>>

WritePostings ==
    /\ life = "write_postings"
    /\ state' = [state EXCEPT !.postings = Some(loaded.postings)]
    /\ life' = "write_n_docs"
    /\ UNCHANGED <<heap, loaded, corpus, h, fin, fout>>

WriteNDocs ==
    /\ life = "write_n_docs"
    /\ state' = [state EXCEPT !.n_docs = loaded.n_docs]
    /\ life' = "serving"
    /\ UNCHANGED <<heap, loaded, corpus, h, fin, fout>>

ResetDocs ==
    /\ life = "serving"
    /\ state' = [state EXCEPT !.docs = NoneVal]
    /\ life' = "reset_postings"
    /\ UNCHANGED <<heap, loaded, corpus, h, fin, fout>>

ResetPostings ==
    /\ life = "reset_postings"
    /\ state' = [state EXCEPT !.postings = NoneVal]
    /\ life' = "reset_n_docs"
    /\ UNCHANGED <<heap, loaded, corpus, h, fin, fout>>

ResetNDocs ==
    /\ life = "reset_n_docs"
    /\ state' = [state EXCEPT !.n_docs = 0]
    /\ life' = "stopped"
    /\ UNCHANGED <<heap, loaded, corpus, h, fin, fout>>

(* search *)
ReadDocs(i) ==
    /\ h[i].pc = "read_docs"
    /\ h' = [h EXCEPT ![i].docs = state.docs, ![i].pc = "read_postings"]
    /\ UNCHANGED <<state, heap, life, loaded, corpus, fin, fout>>

ReadPostings(i) ==
    /\ h[i].pc = "read_postings"
    /\ h' = [h EXCEPT ![i].postings = state.postings, ![i].pc = "read_n_docs"]
    /\ UNCHANGED <<state, heap, life, loaded, corpus, fin, fout>>

ReadNDocs(i) ==
    /\ h[i].pc = "read_n_docs"
    /\ h' = [h EXCEPT ![i].n_docs = state.n_docs, ![i].pc = "check"]
    /\ UNCHANGED <<state, heap, life, loaded, corpus, fin, fout>>

\* if docs is None or postings is None: return 503
CheckReady(i) ==
    /\ h[i].pc = "check"
    /\ h' = IF h[i].docs.none \/ h[i].postings.none
            THEN [h EXCEPT ![i].resp = Error(503, "Indice aun no listo. Reintenta."),
                           ![i].pc = "done"]
            ELSE [h EXCEPT ![i].pc = "lex"]
    /\ UNCHANGED <<state, heap, life, loaded, corpus, fin, fout>>

Lex(i) ==
    /\ h[i].pc = "lex"
    /\ h' = [h EXCEPT ![i].tokens = query_lex(h[i].q), ![i].pc = "convert"]
    /\ UNCHANGED <<state, heap, life, loaded, corpus, fin, fout>>

Convert(i) ==
    /\ h[i].pc = "convert"
    /\ LET r == infix_to_postfix(h[i].tokens)
       IN  h' = IF r.err # ""
                THEN [h EXCEPT ![i].resp = Error(400, r.err), ![i].pc = "done"]
                ELSE [h EXCEPT ![i].postfix = r.out, ![i].pc = "eval"]
    /\ UNCHANGED <<state, heap, life, loaded, corpus, fin, fout>>

\* One iteration of eval_postfix's loop.
EvalStep(i) ==
    /\ h[i].pc = "eval"
    /\ h[i].k <= Len(h[i].postfix)
    /\ LET r == EvalTok(heap, h[i].stack, h[i].postfix[h[i].k], h[i].postings.val, h[i].n_docs)
       IN  /\ heap' = r.heap
           /\ h' = IF r.err # ""
                   THEN [h EXCEPT ![i].resp = Error(400, r.err), ![i].pc = "done"]
                   ELSE [h EXCEPT ![i].stack = r.stack, ![i].k = h[i].k + 1]
    /\ UNCHANGED <<state, life, loaded, corpus, fin, fout>>

\* The end of eval_postfix: the check of the stack and the return.
EvalReturn(i) ==
    /\ h[i].pc = "eval"
    /\ h[i].k > Len(h[i].postfix)
    /\ LET r == EvalEnd(heap, h[i].stack)
       IN  h' = IF r.err # ""
                THEN [h EXCEPT ![i].resp = Error(400, r.err), ![i].pc = "done"]
                ELSE [h EXCEPT ![i].hits = r.ref, ![i].pc = "respond"]
    /\ UNCHANGED <<state, heap, life, loaded, corpus, fin, fout>>

\* for docid in hits[:top]: docs[docid]; an id outside docs raises IndexError
\* (the ids are never negative), which the server answers with 500.
SearchResponse(hits, docs) ==
    LET shown == SubSeq(hits, 1, IF Len(hits) < DefaultTop THEN Len(hits) ELSE DefaultTop)
    IN  IF \E k \in 1..Len(shown) : shown[k] \notin 0..(Len(docs) - 1)
        THEN Error(500, "IndexError")
        ELSE [status |-> 200, error |-> "", total |-> Len(hits),
              results |-> [k \in 1..Len(shown) |->
                              [docid |-> shown[k],
                               categoria |-> docs[shown[k] + 1].cat,
                               snippet |-> Snippet(docs[shown[k] + 1].txt)]]]

Respond(i) ==
    /\ h[i].pc = "respond"
    /\ h' = [h EXCEPT ![i].resp = SearchResponse(heap[h[i].hits], h[i].docs.val),
                      ![i].pc = "done"]
    /\ UNCHANGED <<state, heap, life, loaded, corpus, fin, fout>>

Search(i) ==
    \/ ReadDocs(i)
    \/ ReadPostings(i)
    \/ ReadNDocs(i)
    \/ CheckReady(i)
    \/ Lex(i)
    \/ Convert(i)
    \/ EvalStep(i)
    \/ EvalReturn(i)
    \/ Respond(i)

(***************************************************************************)
(* Inputs.  A raw query is written from words: the terms a and b, the     *)
(* operators as users type them (any case) and the parentheses, joined by  *)
(* a space except next to a parenthesis.                                   *)
(***************************************************************************)
MaxDocs == 4

MaxLen == 7

MaxToks == 4

TermWords == {<<"a">>, <<"b">>}

WAnd == <<"A","N","D">>
WOr == <<"o","r">>
WNot == <<"N","o","t">>

RECURSIVE JoinFrom(_, _)
JoinFrom(words, i) ==
    IF i > Len(words) THEN <<>>
    ELSE IF i = Len(words) THEN words[i]
    ELSE IF words[i] \in {LPAR, RPAR} \/ words[i + 1] \in {LPAR, RPAR}
         THEN words[i] \o JoinFrom(words, i + 1)
         ELSE words[i] \o <<" ">> \o JoinFrom(words, i + 1)

Join(words) == JoinFrom(words, 1)

\* The well-formed infix expressions of exactly n words, by the grammar
\*   E ::= T | E or T      T ::= F | T AND F      F ::= term | Not F | ( E )
Grammar[n \in 0..MaxLen] ==
    IF n = 0 THEN [E |-> {}, T |-> {}, F |-> {}]
    ELSE LET f == (IF n = 1 THEN {<<t>> : t \in TermWords} ELSE {})
                  \cup {<<WNot>> \o x : x \in Grammar[n - 1].F}
                  \cup (IF n >= 3 THEN {<<LPAR>> \o x \o <<RPAR>> : x \in Grammar[n - 2].E}
                        ELSE {})
             t == f \cup UNION {{x \o <<WAnd>> \o y : x \in Grammar[k].T, y \in Grammar[n - 1 - k].F}
                                : k \in 1..(n - 2)}
             e == t \cup UNION {{x \o <<WOr>> \o y : x \in Grammar[k].E, y \in Grammar[n - 1 - k].T}
                                : k \in 1..(n - 2)}
         IN  [E |-> e, T |-> t, F |-> f]

Expressions == UNION {Grammar[n].E : n \in 1..MaxLen}

\* Every sequence of at most MaxToks words over two terms, the operators and
\* the parentheses: well formed or not.
Words == {<<"a">>, <<"b">>, WAnd, WOr, WNot, LPAR, RPAR}

WordSeqs == UNION {[1..n -> Words] : n \in 0..MaxToks}

\* The texts of a corpus file's lines, to be normalized and tokenized, taken
\* in rotation: no term, the term a (twice, in both cases), the term b, and
\* a and b with markup around them.
DocTexts ==
    << <<>>,
       <<"A"," ","a">>,
       <<"b">>,
       <<"<","b",">","a","<","/","b",">",",","b">> >>

\* A corpus file of n lines, ids descending in file order, whose texts start
\* at the given place of the rotation.
CorpusOf(n, start) ==
    [k \in 1..n |-> Line(2 * (n - k) + 1, "chistes",
                         DocTexts[((start + k - 2) % Len(DocTexts)) + 1])]

Corpora == {CorpusOf(n, start) : n \in 0..MaxDocs, start \in {1, 3}}

\* The service after lifespan's startup, one handler called with q.
InitServing(lines, q) ==
    LET s == Startup(<<>>, lines)
    IN  /\ corpus = lines
        /\ heap = s.heap
        /\ loaded = [s EXCEPT !.heap = <<>>]
        /\ state = Serving(s)
        /\ life = "serving"
        /\ h = [i \in Handlers |-> IF i = 1 THEN Called(q) ELSE Idle]
        /\ fin = <<>>
        /\ fout = <<>>

\* Spec: one /search of a well-formed expression against any corpus.
Init ==
    \E lines \in Corpora, e \in Expressions : InitServing(lines, Join(e))

Next == Search(1)

Spec == Init /\ [][Next]_vars

\* Three corpus files: an empty one; one document; lines DOC_RE skips, ids
\* out of order and an id given twice.
SampleCorpora ==
    { <<>>,
      <<Line(4, "chistes", <<"A"," ","a">>)>>,
      <<Line(7, "chistes", <<"b">>), JUNK,
        Line(3, "chistes", <<"<","b",">","a","<","/","b",">",",","b">>),
        Line(7, "varios", <<"a">>), Line(5, "varios", <<>>)>> }

\* SpecParse: one /search of any sequence of words, well formed or not.
InitParse ==
    \E lines \in SampleCorpora, ws \in WordSeqs : InitServing(lines, Join(ws))

SpecParse == InitParse /\ [][Next]_vars

\* SpecConc: two /search calls in flight against one index, their steps
\* interleaved in every order.
ConcQueries ==
    { <<<<"a">>>>,
      <<<<"z">>>>,
      <<WNot, <<"a">>>>,
      <<<<"a">>, WOr, <<"b">>>>,
      <<<<"a">>, WAnd, <<"b">>>>,
      <<<<"b">>, WOr, WNot, <<"a">>>>,
      <<<<"a">>, <<"b">>>>,
      <<WAnd, <<"a">>>> }

ConcCorpus ==
    <<Line(7, "chistes", <<"b">>), JUNK,
      Line(3, "chistes", <<"<","b",">","a","<","/","b",">",",","b">>),
      Line(7, "varios", <<"a">>), Line(5, "varios", <<>>)>>

InitConc ==
    \E q1 \in ConcQueries, q2 \in ConcQueries :
        LET s == Startup(<<>>, ConcCorpus)
        IN  /\ corpus = ConcCorpus
            /\ heap = s.heap
            /\ loaded = [s EXCEPT !.heap = <<>>]
            /\ state = Serving(s)
            /\ life = "serving"
            /\ h = [i \in Handlers |-> Called(Join(IF i = 1 THEN q1 ELSE q2))]
            /\ fin = <<>>
            /\ fout = <<>>

NextConc == \E i \in Handlers : Search(i)

SpecConc == InitConc /\ [][NextConc]_vars

\* SpecLife: the lifespan from the start of the process to its end, and two
\* /search calls whose statements interleave with lifespan's in every order
\* (search is a plain def: FastAPI runs it on a worker thread).
LifeQueries == {<<WNot, <<"a">>>>, <<<<"b">>>>}

Lifespan ==
    \/ Load
    \/ WriteDocs
    \/ WritePostings
    \/ WriteNDocs
    \/ ResetDocs
    \/ ResetPostings
    \/ ResetNDocs

InitLife ==
    \E q1 \in LifeQueries, q2 \in LifeQueries :
        /\ corpus = ConcCorpus
        /\ heap = <<>>
        /\ loaded = NoLoad
        /\ state = STATE0
        /\ life = "load"
        /\ h = [i \in Handlers |-> Called(Join(IF i = 1 THEN q1 ELSE q2))]
        /\ fin = <<>>
        /\ fout = <<>>

NextLife ==
    \/ Lifespan
    \/ \E i \in Handlers : Search(i)

SpecLife == InitLife /\ [][NextLife]_vars

(***************************************************************************)
(* The function specifications: fin is the argument, drawn from a bounded  *)
(* set, and fout the results of the calls made so far.  The service stands *)
(* still.                                                                  *)
(***************************************************************************)
ServiceOff ==
    /\ corpus = <<>>
    /\ heap = <<>>
    /\ loaded = NoLoad
    /\ state = STATE0
    /\ life = "off"
    /\ h = [i \in Handlers |-> Idle]

MaxN == 5

MaxChunks == 3

MaxLines == 3

MaxId == 2

\* The ascending list of a finite set of integers.
RECURSIVE SetToList(_)
SetToList(S) ==
    IF S = {} THEN <<>>
    ELSE LET m == CHOOSE x \in S : \A y \in S : x <= y
         IN  <<m>> \o SetToList(S \ {m})

\* Every concatenation of at most n of the chunks.
RECURSIVE Concats(_, _)
Concats(chunks, n) ==
    IF n = 0 THEN {<<>>}
    ELSE LET shorter == Concats(chunks, n - 1)
         IN  shorter \cup {s \o c : s \in shorter, c \in chunks}

\* SpecCompl: complement(p, n_docs), then complement of its result.
InitCompl ==
    /\ ServiceOff
    /\ \E n \in 0..MaxN, S \in SUBSET (0..(MaxN - 1)) :
          /\ \A x \in S : x < n
          /\ fin = [p |-> SetToList(S), n_docs |-> n]
    /\ fout = <<>>

ComplementOnce ==
    /\ life = "off" /\ fout = <<>> /\ DOMAIN fin = {"p", "n_docs"}
    /\ fout' = <<complement(fin.p, fin.n_docs)>>
    /\ UNCHANGED <<state, heap, life, loaded, corpus, h, fin>>

ComplementTwice ==
    /\ life = "off" /\ Len(fout) = 1 /\ DOMAIN fin = {"p", "n_docs"}
    /\ fout' = Append(fout, complement(fout[1], fin.n_docs))
    /\ UNCHANGED <<state, heap, life, loaded, corpus, h, fin>>

NextCompl ==
    \/ ComplementOnce
    \/ ComplementTwice

SpecCompl == InitCompl /\ [][NextCompl]_vars

\* SpecLex: query_lex on a raw query made of reserved words in several
\* cases, a term, spaces, parentheses and punctuation.
LexChunks ==
    { <<"a","n","d">>, <<"A","n","d">>, <<"o","r">>, <<"N","O","T">>, <<"x">>,
      <<" ">>, <<"(">>, <<")">>, <<",">>, <<"U+FF06">> }

InitLex ==
    /\ ServiceOff
    /\ \E q \in Concats(LexChunks, MaxChunks) : fin = [q |-> q]
    /\ fout = <<>>

LexQuery ==
    /\ life = "off" /\ fout = <<>> /\ DOMAIN fin = {"q"}
    /\ fout' = <<query_lex(fin.q)>>
    /\ UNCHANGED <<state, heap, life, loaded, corpus, h, fin>>

SpecLex == InitLex /\ [][LexQuery]_vars

\* SpecClean: clean_text, then clean_text of its result, on a string made of
\* entities, escaped entities, a tag, angle brackets, letters in both cases,
\* a control character and a fullwidth bracket.
CleanChunks ==
    { <<"&","a","m","p",";">>, <<"&","l","t",";">>, <<"l","t",";">>,
      <<"<","b",">">>, <<"<">>, <<">">>, <<"b">>, <<"B">>, <<" ">>,
      <<"U+0007">>, <<"U+FF1C">> }

InitClean ==
    /\ ServiceOff
    /\ \E s \in Concats(CleanChunks, MaxChunks) : fin = [s |-> s]
    /\ fout = <<>>

CleanOnce ==
    /\ life = "off" /\ fout = <<>> /\ DOMAIN fin = {"s"}
    /\ fout' = <<clean_text(fin.s)>>
    /\ UNCHANGED <<state, heap, life, loaded, corpus, h, fin>>

CleanTwice ==
    /\ life = "off" /\ Len(fout) = 1 /\ DOMAIN fin = {"s"}
    /\ fout' = Append(fout, clean_text(fout[1]))
    /\ UNCHANGED <<state, heap, life, loaded, corpus, h, fin>>

NextClean ==
    \/ CleanOnce
    \/ CleanTwice

SpecClean == InitClean /\ [][NextClean]_vars

\* SpecIndex: a corpus file of at most MaxLines lines is loaded by main.py's
\* call load_corpus(path, remap_docids=True) ("remap"), by
\* load_corpus(path, remap_docids=False) ("raw") or by the export tool's
\* load_docs ("export"), and the documents are indexed.
IndexTexts == {<<>>, <<"A"," ","a">>, <<"b">>, <<"a",",","b">>}

FileLines == {JUNK} \cup {Line(id, "chistes", t) : id \in 0..MaxId, t \in IndexTexts}

Loaders == {"remap", "raw", "export"}

InitIndex ==
    /\ ServiceOff
    /\ \E lines \in UNION {[1..n -> FileLines] : n \in 0..MaxLines}, mode \in Loaders :
          fin = [lines |-> lines, mode |-> mode]
    /\ fout = <<>>

LoadFile ==
    /\ life = "off" /\ fout = <<>> /\ DOMAIN fin = {"lines", "mode"}
    /\ fout' = << CASE fin.mode = "remap" -> load_corpus(fin.lines, TRUE).docs
                    [] fin.mode = "raw" -> load_corpus(fin.lines, FALSE).docs
                    [] fin.mode = "export" -> load_docs(fin.lines) >>
    /\ UNCHANGED <<state, heap, life, loaded, corpus, h, fin>>

BuildIndex ==
    /\ life = "off" /\ Len(fout) = 1 /\ DOMAIN fin = {"lines", "mode"}
    /\ fout' = Append(fout, build_inverted_index(fout[1]))
    /\ UNCHANGED <<state, heap, life, loaded, corpus, h, fin>>

NextIndex ==
    \/ LoadFile
    \/ BuildIndex

SpecIndex == InitIndex /\ [][NextIndex]_vars

(***************************************************************************)
(* What the claims say.                                                    *)
(***************************************************************************)
StrictlyIncreasing(list) == \A k \in 1..(Len(list) - 1) : list[k] < list[k + 1]

\* The index of the service as values, the set a term stands for, and the
\* universe of NOT.
IndexNow == Deref(heap, state.postings.val)

TermSet(t) == Range(Get(IndexNow, t))

Universe == 0..(state.n_docs - 1)

\* The set an infix token sequence denotes, by recursive descent on
\*   E ::= T (OR T)*    T ::= F (AND F)*    F ::= NOT F | ( E ) | term
\* so NOT binds tighter than AND, AND tighter than OR, and AND and OR group
\* from the left.  ok is FALSE for a sequence the grammar does not derive.
NoParse == [ok |-> FALSE, val |-> {}, next |-> 0]

RECURSIVE ParseE(_, _)
RECURSIVE ParseT(_, _)
RECURSIVE ParseF(_, _)
RECURSIVE ParseERest(_, _, _)
RECURSIVE ParseTRest(_, _, _)
ParseF(toks, i) ==
    IF i > Len(toks) THEN NoParse
    ELSE IF toks[i] = NOT
         THEN LET r == ParseF(toks, i + 1)
              IN  IF r.ok THEN [ok |-> TRUE, val |-> Universe \ r.val, next |-> r.next]
                  ELSE NoParse
    ELSE IF toks[i] = LPAR
         THEN LET r == ParseE(toks, i + 1)
              IN  IF r.ok /\ r.next <= Len(toks) /\ toks[r.next] = RPAR
                  THEN [ok |-> TRUE, val |-> r.val, next |-> r.next + 1]
                  ELSE NoParse
    ELSE IF toks[i] \in {RPAR, AND, OR} THEN NoParse
    ELSE [ok |-> TRUE, val |-> TermSet(toks[i]), next |-> i + 1]

ParseTRest(toks, i, acc) ==
    IF i <= Len(toks) /\ toks[i] = AND
    THEN LET r == ParseF(toks, i + 1)
         IN  IF r.ok THEN ParseTRest(toks, r.next, acc \cap r.val) ELSE NoParse
    ELSE [ok |-> TRUE, val |-> acc, next |-> i]

ParseT(toks, i) ==
    LET r == ParseF(toks, i)
    IN  IF r.ok THEN ParseTRest(toks, r.next, r.val) ELSE NoParse

ParseERest(toks, i, acc) ==
    IF i <= Len(toks) /\ toks[i] = OR
    THEN LET r == ParseT(toks, i + 1)
         IN  IF r.ok THEN ParseERest(toks, r.next, acc \cup r.val) ELSE NoParse
    ELSE [ok |-> TRUE, val |-> acc, next |-> i]

ParseE(toks, i) ==
    LET r == ParseT(toks, i)
    IN  IF r.ok THEN ParseERest(toks, r.next, r.val) ELSE NoParse

Denote(toks) ==
    LET r == ParseE(toks, 1)
    IN  IF r.ok /\ r.next = Len(toks) + 1 THEN [ok |-> TRUE, val |-> r.val]
        ELSE [ok |-> FALSE, val |-> {}]

ResultIds(resp) == [k \in 1..Len(resp.results) |-> resp.results[k].docid]

\* C1: for a well-formed infix expression, infix_to_postfix followed by
\* eval_postfix returns the ascending list of exactly the set the expression
\* denotes under NOT > AND > OR, left grouping and parentheses; the handler
\* answers 200 with those ids.
C1_PrecedenceSemantics ==
    \A i \in Handlers :
        (h[i].pc \in {"respond", "done"} /\ Denote(h[i].tokens).ok) =>
            LET ids == SetToList(Denote(h[i].tokens).val)
            IN  /\ h[i].pc = "respond" => heap[h[i].hits] = ids
                /\ h[i].pc = "done" =>
                      /\ h[i].resp.status = 200
                      /\ h[i].resp.total = Len(ids)
                      /\ ResultIds(h[i].resp) = ids

\* 'a or b AND Not a' has been answered with a OR (b AND (NOT a)), where the
\* reading (a OR b) AND (NOT a) gives another set.
C1_Witness ==
    /\ h[1].pc = "done"
    /\ h[1].tokens = <<<<"a">>, OR, <<"b">>, AND, NOT, <<"a">>>>
    /\ h[1].resp.status = 200
    /\ ResultIds(h[1].resp) = SetToList(TermSet(<<"a">>) \cup TermSet(<<"b">>))
    /\ TermSet(<<"a">>) # {}
    /\ TermSet(<<"b">>) \ TermSet(<<"a">>) # {}

\* The parentheses of a token sequence are balanced: no ")" without an
\* earlier unmatched "(", and no "(" left open.
RECURSIVE BalancedFrom(_, _, _)
BalancedFrom(toks, i, depth) ==
    IF i > Len(toks) THEN depth = 0
    ELSE IF toks[i] = LPAR THEN BalancedFrom(toks, i + 1, depth + 1)
    ELSE IF toks[i] = RPAR THEN depth > 0 /\ BalancedFrom(toks, i + 1, depth - 1)
    ELSE BalancedFrom(toks, i + 1, depth)

Balanced(toks) == BalancedFrom(toks, 1, 0)

Converted(i) == h[i].pc \in {"eval", "respond", "done"}

\* C2: infix_to_postfix raises "unbalanced parentheses" if and only if the
\* parentheses of the token sequence are unbalanced; for a balanced sequence
\* it returns a postfix sequence (every token but the parentheses), whatever
\* the operators and terms are.
C2_UnbalancedIffError ==
    \A i \in Handlers :
        Converted(i) =>
            /\ (h[i].resp.error = UNBALANCED) <=> ~Balanced(h[i].tokens)
            /\ Balanced(h[i].tokens) =>
                  /\ \A k \in 1..Len(h[i].postfix) : h[i].postfix[k] \notin {LPAR, RPAR}
                  /\ Len(h[i].postfix) =
                        Cardinality({k \in 1..Len(h[i].tokens) :
                                        h[i].tokens[k] \notin {LPAR, RPAR}})

\* '( )' has been converted without an error, to the empty postfix sequence.
C2_Witness ==
    /\ h[1].tokens = <<LPAR, RPAR>>
    /\ h[1].pc = "eval"
    /\ h[1].postfix = <<>>
    /\ h[1].resp.error = ""

IsTerm(tok) == tok \notin OPS \cup {LPAR, RPAR}

AdjacentTerms(toks) ==
    \E k \in 1..(Len(toks) - 1) : IsTerm(toks[k]) /\ IsTerm(toks[k + 1])

\* C3: a query whose token stream holds two term tokens next to each other
\* is answered with an error and never with a result list, wherever the
\* pair stands and whatever operators come before or after it.
C3_AdjacentTermsRejected ==
    \A i \in Handlers :
        (Converted(i) /\ AdjacentTerms(h[i].tokens)) =>
            /\ h[i].pc # "respond"
            /\ h[i].pc = "done" => h[i].resp.status = 400

\* The ids of the documents whose normalized, tokenized text holds the term.
DocsWith(docs, t) ==
    {docs[k].docid : k \in {k \in 1..Len(docs) : t \in Range(tokenize(clean_text(docs[k].txt)))}}

\* C4: whatever the loader (ids remapped or as parsed, in any multiplicity),
\* build_inverted_index maps each term to a strictly increasing list of
\* exactly the ids of the documents that hold the term; no list is empty.
C4_PostingsStrictlyIncreasing ==
    Len(fout) = 2 =>
        \A t \in DOMAIN fout[2] :
            /\ StrictlyIncreasing(fout[2][t])
            /\ Range(fout[2][t]) = DocsWith(fout[1], t)
            /\ fout[2][t] # <<>>

\* C5: for a strictly increasing p within 0..n_docs-1, complement(p, n_docs)
\* is the strictly increasing list of exactly the ids of 0..n_docs-1 not in
\* p, and the complement of that list is p again.
C5_ComplementInvolution ==
    /\ Len(fout) >= 1 =>
          /\ StrictlyIncreasing(fout[1])
          /\ Range(fout[1]) = (0..(fin.n_docs - 1)) \ Range(fin.p)
    /\ Len(fout) = 2 => fout[2] = fin.p

\* Both calls made, on a p that is neither empty nor the whole universe.
C5_Witness ==
    /\ Len(fout) = 2
    /\ fin.p = <<1, 3>>
    /\ fin.n_docs = 5
    /\ fout[1] = <<0, 2, 4>>

\* What a /search of q answers when it runs alone on the started service.
AnswerAlone(q) ==
    LET s == Startup(<<>>, corpus)
        p == infix_to_postfix(query_lex(q))
        r == eval_postfix(s.heap, p.out, s.postings, s.n_docs)
    IN  IF p.err # "" THEN Error(400, p.err)
        ELSE IF r.err # "" THEN Error(400, r.err)
        ELSE SearchResponse(r.heap[r.ref], s.docs)

\* C6: with queries in flight in any interleaving, STATE, the documents and
\* every posting list of the index stay what startup made them, no list
\* object is written once it exists, and each query is answered as it is
\* when it runs alone.
C6_ReadOnlyEvaluation ==
    LET s == Startup(<<>>, corpus)
    IN  /\ state = Serving(s)
        /\ IndexNow = build_inverted_index(load_corpus(corpus, TRUE).docs)
        /\ \A r \in 1..Len(s.heap) : heap[r] = s.heap[r]
        /\ \A i \in Handlers : h[i].pc = "done" => h[i].resp = AnswerAlone(h[i].q)

\* Two queries answered, one with a list of the index itself (no copy), the
\* other with a list the evaluation made.
C6_Witness ==
    /\ h[1].pc = "done" /\ h[1].resp.status = 200
    /\ h[2].pc = "done" /\ h[2].resp.status = 200
    /\ h[1].hits \in 1..Len(Startup(<<>>, corpus).heap)
    /\ h[2].hits > Len(Startup(<<>>, corpus).heap)
    /\ h[1].resp.total > 0

ReservedTerms == {<<"a","n","d">>, <<"o","r">>, <<"n","o","t">>}

\* C7: query_lex never emits a term token that spells and, or, not.
C7_NoReservedTerm ==
    Len(fout) = 1 => \A k \in 1..Len(fout[1]) : fout[1][k] \notin ReservedTerms

\* The characters of a raw query that is written with ASCII letters and
\* digits, white space and parentheses only.
IsPlainChar(ch) ==
    \/ IsWordChar(LowerChar(ch))
    \/ ch \in Whitespace
    \/ ch \in {"(", ")"}

PlainQuery(q) == \A k \in 1..Len(q) : IsPlainChar(q[k])

\* C7 amended: for a raw query of ASCII letters, digits, white space and
\* parentheses only, query_lex never emits a term token that spells and, or,
\* not.
C7_NoReservedTermInPlainQuery ==
    (Len(fout) = 1 /\ PlainQuery(fin.q)) =>
        \A k \in 1..Len(fout[1]) : fout[1][k] \notin ReservedTerms

\* 'and(or' has been lexed: both reserved words came out as operators.
C7_Witness ==
    /\ Len(fout) = 1
    /\ fin.q = <<"a","n","d","(","o","r">>
    /\ fout[1] = <<AND, LPAR, OR>>

\* C8: clean_text(clean_text(s)) = clean_text(s) for every s.
C8_CleanIdempotent == Len(fout) = 2 => fout[2] = fout[1]

NonAscii ==
    {"U+FF1C", "U+FF1E", "U+FF06", "U+2248", "U+2A85", "U+2AAB", "U+226A",
     "U+2720", "U+21A6", "U+2213", "U+00B1"}

AsciiNoAmp(s) == \A k \in 1..Len(s) : s[k] \notin NonAscii \cup {"&"}

\* C8 amended: clean_text(clean_text(s)) = clean_text(s) for every string s
\* of ASCII characters other than '&' (tags and control characters
\* included).
C8_CleanIdempotentNoAmp ==
    (Len(fout) = 2 /\ AsciiNoAmp(fin.s)) => fout[2] = fout[1]

\* A string with a tag, a control character and an upper-case letter has
\* been cleaned twice.
C8_Witness ==
    /\ Len(fout) = 2
    /\ fin.s = <<"<","b",">","U+0007","B">>
    /\ fout[1] = <<" "," ","b">>

\* C9: with a corpus loaded in remap mode, n_docs is the number of documents
\* N, every list on an evaluator's stack and every list returned is strictly
\* increasing with its ids in 0..N-1, and docs[docid] never fails.
InUniverse(list) ==
    /\ StrictlyIncreasing(list)
    /\ \A k \in 1..Len(list) : list[k] \in 0..(Len(state.docs.val) - 1)

C9_ResultsInsideUniverse ==
    /\ state.n_docs = Len(state.docs.val)
    /\ \A i \in Handlers :
          /\ \A k \in 1..Len(h[i].stack) : InUniverse(heap[h[i].stack[k]])
          /\ h[i].hits # 0 => InUniverse(heap[h[i].hits])
          /\ h[i].resp.status # 500

\* A complement against four documents is on the stack beside a list of the
\* index.
C9_Witness ==
    /\ h[1].pc = "eval"
    /\ state.n_docs = 4
    /\ Len(h[1].stack) = 2
    /\ h[1].k > 1 /\ h[1].postfix[h[1].k - 1] = NOT
    /\ Len(heap[Top(h[1].stack)]) >= 2

\* C10: a handler that evaluates its query (it did not answer 503) holds the
\* docs, postings and n_docs of one loaded corpus: n_docs = len(docs).
C10_ConsistentSnapshot ==
    \A i \in Handlers :
        h[i].pc \in {"lex", "convert", "eval", "respond"} =>
            /\ h[i].docs.val = loaded.docs
            /\ h[i].postings.val = loaded.postings
            /\ h[i].n_docs = Len(h[i].docs.val)

====
